---------------------------- MODULE Spec2Model ----------------------------
(***************************************************************************)
(* arkade: `install docker-registry-ingress`                                *)
(* (src/cmd/apps/registry_ingress_app.go).                                  *)
(*                                                                         *)
(* The command reads its flags, sets the kubeconfig, validates the flags,  *)
(* asks the cluster for its capabilities, renders a manifest from a        *)
(* text/template, writes it to a temp file, runs `kubectl apply -f` on it  *)
(* and prints a banner.                                                    *)
(*                                                                         *)
(* Text is modelled as a sequence of tokens (TLA+ strings): the            *)
(* concatenation of two texts is \o, "text a contains text b" is "b is a   *)
(* contiguous subsequence of a".  The templates are cut into tokens at the *)
(* words the properties look for (a key, its ": ", its value, "\n").       *)
(***************************************************************************)
EXTENDS Naturals, Sequences, FiniteSets

\* The longest e-mail flag value, in tokens.
MaxTokens == 2

VARIABLES
    pc,             \* the command's position in RunE, or the harness's around buildRegistryYAML
    flags,          \* the parsed command line
    kubeconfig,     \* the process-wide kubeconfig setting
    hasNetworking,  \* caps["networking.k8s.io/v1"]
    yamlBytes,      \* buildRegistryYAML's first result
    templateErr,    \* buildRegistryYAML's second result
    tempFile,       \* the temp file written by writeTempFile
    kubectl,        \* the arguments of every kubectl invocation made
    res,            \* what KubectlTask returned: the result, and the error as res.err
    stdout,         \* what was printed with fmt.Println
    logged,         \* what was printed with log.Print
    ret,            \* RunE's return value
    calls           \* the stages of RunE entered so far, in order

vars == <<pc, flags, kubeconfig, hasNetworking, yamlBytes, templateErr, tempFile,
          kubectl, res, stdout, logged, ret, calls>>

---------------------------------------------------------------------------
(* Text *)

\* The concatenation of ss[lo], ..., ss[hi].
RECURSIVE ConcatRange(_, _, _)
ConcatRange(ss, lo, hi) ==
    IF lo > hi THEN <<>>
    ELSE IF lo = hi THEN ss[lo]
    ELSE LET mid == (lo + hi) \div 2
         IN  ConcatRange(ss, lo, mid) \o ConcatRange(ss, mid + 1, hi)

Concat(ss) == ConcatRange(ss, 1, Len(ss))

\* All token sequences of length at most n over the tokens S.
RECURSIVE SeqsUpTo(_, _)
SeqsUpTo(S, n) ==
    IF n = 0 THEN {<<>>}
    ELSE LET shorter == SeqsUpTo(S, n - 1)
         IN  shorter \cup {Append(s, t) : s \in shorter, t \in S}

---------------------------------------------------------------------------
(* Errors *)

NilErr == [kind |-> "nil", text |-> <<>>]
NoReturn == [kind |-> "none", text |-> <<>>]
Err(kind, text) == [kind |-> kind, text |-> text]

---------------------------------------------------------------------------
(* text/template: a template is its sequence of nodes, a text node or a     *)
(* {{.Field}} action                                                        *)

T(s) == [kind |-> "text", s |-> s]
F(name) == [kind |-> "field", s |-> name]

\* The template source of a Go raw string literal given line by line.
JoinLines(ls) ==
    Concat([i \in 1..Len(ls) |-> IF i = 1 THEN ls[i] ELSE <<T("\n")>> \o ls[i]])

\* template.New("yaml").Parse: a node that is neither text nor a well-formed
\* action is a parse error.
Parse(tmplString) ==
    IF \E i \in 1..Len(tmplString) : tmplString[i].kind \notin {"text", "field"}
    THEN [tmpl |-> <<>>, err |-> Err("template", <<"template: yaml: parse error">>)]
    ELSE [tmpl |-> tmplString, err |-> NilErr]

\* tmpl.Execute: text is copied, a field is replaced by its value printed
\* verbatim; a field the data does not have is an execution error.
Execute(tmpl, data) ==
    LET unknown == {i \in 1..Len(tmpl) : tmpl[i].kind = "field" /\ tmpl[i].s \notin DOMAIN data}
    IN  IF unknown # {}
        THEN LET first == CHOOSE i \in unknown : \A j \in unknown : i <= j
             IN  [out |-> <<>>,
                  err |-> Err("template",
                              <<"template: yaml: can't evaluate field ", tmpl[first].s>>)]
        ELSE [out |-> Concat([i \in 1..Len(tmpl) |->
                                 IF tmpl[i].kind = "text" THEN <<tmpl[i].s>>
                                 ELSE data[tmpl[i].s]]),
              err |-> NilErr]

---------------------------------------------------------------------------
(* The templates *)

\* Faulty variant: the Ingress's TLS host is the namespace.
tlsHostLineOfNamespace == <<T("    - "), F("Namespace")>>

tlsHostLine == <<T("    - "), F("IngressDomain")>>

\* Faulty variant: the ACME server names a field RegInputData does not have.
issuerServerLineUnknownField == <<T("    "), T("server"), T(": "), F("IssuerURL")>>

issuerServerLine == <<T("    "), T("server"), T(": "), F("IssuerAPI")>>

\* Faulty variant: the private key's secret is always the production one.
issuerSecretLineFixed ==
    <<T("      "), T("name"), T(": "), T("letsencrypt-prod-issuer")>>

issuerSecretLine == <<T("      "), T("name"), T(": "), F("IssuerType")>>

\* Faulty variant: the solver's ingress class is always nginx.
solverClassLineFixed == <<T("          "), T("class"), T(": "), T("nginx")>>

solverClassLine == <<T("          "), T("class"), T(": "), F("IngressClass")>>

registryIngressExtensionsYamlTemplate ==
    JoinLines(<<
        <<>>,
        <<T("apiVersion"), T(": "), T("extensions/v1beta1")>>,
        <<T("kind"), T(": "), T("Ingress")>>,
        <<T("metadata"), T(":")>>,
        <<T("  "), T("name"), T(": "), T("docker-registry")>>,
        <<T("  "), T("namespace"), T(": "), F("Namespace")>>,
        <<T("  "), T("annotations"), T(":")>>,
        <<T("    "), T("cert-manager.io/issuer"), T(": "), F("IssuerType")>>,
        <<T("    "), T("kubernetes.io/ingress.class"), T(": "), F("IngressClass")>>,
        <<F("NginxMaxBuffer")>>,
        <<T("spec"), T(":")>>,
        <<T("  "), T("rules"), T(":")>>,
        <<T("  - "), T("host"), T(": "), F("IngressDomain")>>,
        <<T("    "), T("http"), T(":")>>,
        <<T("      "), T("paths"), T(":")>>,
        <<T("      - "), T("backend"), T(":")>>,
        <<T("          "), T("serviceName"), T(": "), T("docker-registry")>>,
        <<T("          "), T("servicePort"), T(": "), T("5000")>>,
        <<T("        "), T("path"), T(": "), T("/")>>,
        <<T("  "), T("tls"), T(":")>>,
        <<T("  - "), T("hosts"), T(":")>>,
        tlsHostLine,
        <<T("    "), T("secretName"), T(": "), T("docker-registry")>>,
        <<T("---")>>,
        <<T("apiVersion"), T(": "), T("cert-manager.io/v1")>>,
        <<T("kind"), T(": "), T("Issuer")>>,
        <<T("metadata"), T(":")>>,
        <<T("  "), T("name"), T(": "), F("IssuerType")>>,
        <<T("  "), T("namespace"), T(": "), F("Namespace")>>,
        <<T("spec"), T(":")>>,
        <<T("  "), T("acme"), T(":")>>,
        <<T("    "), T("email"), T(": "), F("CertmanagerEmail")>>,
        issuerServerLine,
        <<T("    "), T("privateKeySecretRef"), T(":")>>,
        issuerSecretLine,
        <<T("    "), T("solvers"), T(":")>>,
        <<T("    - "), T("http01"), T(":")>>,
        <<T("        "), T("ingress"), T(":")>>,
        solverClassLine
    >>)

registryIngressNetworkingYamlTemplate ==
    JoinLines(<<
        <<>>,
        <<T("apiVersion"), T(": "), T("networking.k8s.io/v1")>>,
        <<T("kind"), T(": "), T("Ingress")>>,
        <<T("metadata"), T(":")>>,
        <<T("  "), T("name"), T(": "), T("docker-registry")>>,
        <<T("  "), T("namespace"), T(": "), F("Namespace")>>,
        <<T("  "), T("annotations"), T(":")>>,
        <<T("    "), T("cert-manager.io/issuer"), T(": "), F("IssuerType")>>,
        <<T("    "), T("kubernetes.io/ingress.class"), T(": "), F("IngressClass")>>,
        <<F("NginxMaxBuffer")>>,
        <<T("spec"), T(":")>>,
        <<T("  "), T("rules"), T(":")>>,
        <<T("  - "), T("host"), T(": "), F("IngressDomain")>>,
        <<T("    "), T("http"), T(":")>>,
        <<T("      "), T("paths"), T(":")>>,
        <<T("      - "), T("path"), T(": "), T("/")>>,
        <<T("        "), T("pathType"), T(": "), T("ImplementationSpecific")>>,
        <<T("        "), T("backend"), T(":")>>,
        <<T("          "), T("service")>>,
        <<T("            "), T("name"), T(": "), T("docker-registry")>>,
        <<T("            "), T("port"), T(":")>>,
        <<T("              "), T("number"), T(": "), T("5000")>>,
        <<T("  "), T("tls"), T(":")>>,
        <<T("  - "), T("hosts"), T(":")>>,
        <<T("    - "), F("IngressDomain")>>,
        <<T("    "), T("secretName"), T(": "), T("docker-registry")>>,
        <<T("---")>>,
        <<T("apiVersion"), T(": "), T("cert-manager.io/v1")>>,
        <<T("kind"), T(": "), T("Issuer")>>,
        <<T("metadata"), T(":")>>,
        <<T("  "), T("name"), T(": "), F("IssuerType")>>,
        <<T("  "), T("namespace"), T(": "), F("Namespace")>>,
        <<T("spec"), T(":")>>,
        <<T("  "), T("acme"), T(":")>>,
        <<T("    "), T("email"), T(": "), F("CertmanagerEmail")>>,
        <<T("    "), T("server"), T(": "), F("IssuerAPI")>>,
        <<T("    "), T("privateKeySecretRef"), T(":")>>,
        <<T("      "), T("name"), T(": "), F("IssuerType")>>,
        <<T("    "), T("solvers"), T(":")>>,
        <<T("    - "), T("http01"), T(":")>>,
        <<T("        "), T("ingress"), T(":")>>,
        <<T("          "), T("class"), T(": "), F("IngressClass")>>
    >>)

---------------------------------------------------------------------------
(* buildRegistryYAML *)

ProdIssuer == <<"letsencrypt-prod-issuer">>
ProdAPI == <<"https://acme-v02.api.letsencrypt.org/directory">>
StagingIssuer == <<"letsencrypt-staging-issuer">>
StagingAPI == <<"https://acme-staging-v02.api.letsencrypt.org/directory">>
ProxyBodySizeKey == "nginx.ingress.kubernetes.io/proxy-body-size"

RegInputData(domain, email, ingressClass, namespace) ==
    [IngressDomain    |-> domain,
     CertmanagerEmail |-> email,
     IngressClass     |-> ingressClass,
     Namespace        |-> namespace,
     IssuerType       |-> ProdIssuer,
     IssuerAPI        |-> ProdAPI,
     NginxMaxBuffer   |-> <<>>]

\* Faulty variant: --staging renames the issuer and keeps the production endpoint.
withStagingNameOnly(inputData, staging) ==
    IF staging THEN [inputData EXCEPT !.IssuerType = StagingIssuer] ELSE inputData

\* if staging { ... }
withStaging(inputData, staging) ==
    IF staging
    THEN [inputData EXCEPT !.IssuerType = StagingIssuer, !.IssuerAPI = StagingAPI]
    ELSE inputData

\* Faulty variant: the annotation is written for every ingress class.
withNginxMaxBufferAlways(inputData, ingressClass, maxSize) ==
    [inputData EXCEPT !.NginxMaxBuffer = <<"    ", ProxyBodySizeKey, ": ">> \o maxSize]

\* if ingressClass == "nginx" { ... fmt.Sprintf("    nginx...proxy-body-size: %s", maxSize) }
withNginxMaxBuffer(inputData, ingressClass, maxSize) ==
    IF ingressClass = <<"nginx">>
    THEN [inputData EXCEPT !.NginxMaxBuffer = <<"    ", ProxyBodySizeKey, ": ">> \o maxSize]
    ELSE inputData

\* The result is [bytes, err]; a nil byte slice is <<>>.
buildRegistryYAML(domain, email, ingressClass, namespace, maxSize, staging, networking) ==
    LET tmplString == registryIngressExtensionsYamlTemplate
        parsed == Parse(tmplString)
    IN  IF parsed.err # NilErr THEN [bytes |-> <<>>, err |-> parsed.err]
        ELSE LET inputData ==
                     withNginxMaxBuffer(
                         withStaging(RegInputData(domain, email, ingressClass, namespace),
                                     staging),
                         ingressClass, maxSize)
                 tpl == Execute(parsed.tmpl, inputData)
             IN  IF tpl.err # NilErr THEN [bytes |-> <<>>, err |-> tpl.err]
                 ELSE [bytes |-> tpl.out, err |-> NilErr]


---------------------------------------------------------------------------
(* The command line *)

Domains == {<<>>, <<"registry.example.com">>}
EmailTokens == {"admin@", "registry.example.com",
                "https://acme-staging-v02.api.letsencrypt.org/directory",
                "nginx.ingress.kubernetes.io/proxy-body-size"}
Emails == SeqsUpTo(EmailTokens, MaxTokens)
IngressClasses == {<<>>, <<"nginx">>, <<"traefik">>}
Namespaces == {<<"default">>, <<"letsencrypt-staging-issuer">>}
MaxSizes == {<<"200m">>, <<"1g">>}
KubeconfigPaths == {<<>>, <<"/home/user/.kube/config">>}

\* Every command line: the flags registered on the command and the inherited
\* --kubeconfig.
FlagSets ==
    [domain : Domains, email : Emails, ingressClass : IngressClasses,
     namespace : Namespaces, maxSize : MaxSizes, staging : BOOLEAN,
     kubeconfig : KubeconfigPaths]

\* What the collaborators can answer.
CapabilitySets == SUBSET {"networking.k8s.io/v1", "extensions/v1beta1"}
StderrTexts == {<<>>, <<"error: unable to recognize temp_registry_ingress.yaml">>}
ExitCodes == {0, 1}

RegistryIngressInfoMsg ==
    <<"# You will need to ensure that your domain points to your cluster and is\n",
      "# accessible through ports 80 and 443.\n",
      "#\n",
      "# This is used to validate your ownership of this domain by LetsEncrypt\n",
      "# and then you can use https with your installation.\n",
      "\n",
      "# Ingress to your domain has been installed for the Registry\n",
      "# to see the ingress record run\n",
      "kubectl get -n <installed-namespace> ingress docker-registry\n",
      "\n",
      "# Check the cert-manager logs with:\n",
      "kubectl logs -n cert-manager deploy/cert-manager\n",
      "\n",
      "# A cert-manager Issuer has been installed into the provided\n",
      "# namespace - to see the resource run\n",
      "kubectl describe -n <installed-namespace> Issuer letsencrypt-prod-registry\n",
      "\n",
      "# To check the status of your certificate you can run\n",
      "kubectl describe -n <installed-namespace> Certificate docker-registry\n",
      "\n",
      "# It may take a while to be issued by LetsEncrypt, in the meantime a\n",
      "# self-signed cert will be installed">>

\* pkg.ThanksForUsing is one token.
RegistryIngressInstallMsg ==
    <<"=======================================================================\n",
      "= Docker Registry Ingress and cert-manager Issuer have been installed =\n",
      "=======================================================================",
      "\n\n">>
    \o RegistryIngressInfoMsg \o <<"\n\n", "pkg.ThanksForUsing">>

Unset == <<"(unset)">>
NoFile == [name |-> <<>>, content |-> <<>>]
NoResult == [ExitCode |-> 0, Stderr |-> <<>>, err |-> NilErr]

---------------------------------------------------------------------------
(* MakeInstallRegistryIngress: RunE, one action per call it makes *)

Return(err) ==
    /\ ret' = err
    /\ pc' = "done"

Init ==
    /\ pc = "start"
    /\ flags \in FlagSets
    /\ kubeconfig = Unset
    /\ hasNetworking = FALSE
    /\ yamlBytes = <<>>
    /\ templateErr = NilErr
    /\ tempFile = NoFile
    /\ kubectl = <<>>
    /\ res = NoResult
    /\ stdout = <<>>
    /\ logged = <<>>
    /\ ret = NoReturn
    /\ calls = <<>>

\* config.SetKubeconfig(kubeConfigPath)
SetKubeconfig ==
    /\ pc = "start"
    /\ calls' = Append(calls, "kubeconfig")
    /\ \E ok \in BOOLEAN :
        IF ok
        THEN /\ kubeconfig' = flags.kubeconfig
             /\ pc' = "validate"
             /\ ret' = ret
        ELSE /\ kubeconfig' = kubeconfig
             /\ Return(Err("kubeconfig", <<"kubeconfig error">>))
    /\ UNCHANGED <<flags, hasNetworking, yamlBytes, templateErr, tempFile, kubectl,
                   res, stdout, logged>>

\* Faulty variant: --ingress-class is not validated.
ValidateFlagsWithoutClass ==
    /\ pc = "validate"
    /\ calls' = Append(calls, "validate")
    /\ IF flags.email = <<>> \/ flags.domain = <<>>
       THEN Return(Err("validation",
                <<"both --email and --domain flags should be set and not empty, please set these values">>))
       ELSE /\ pc' = "caps"
            /\ ret' = ret
    /\ UNCHANGED <<flags, kubeconfig, hasNetworking, yamlBytes, templateErr, tempFile,
                   kubectl, res, stdout, logged>>

\* if email == "" || domain == "" { ... }  if ingressClass == "" { ... }
ValidateFlags ==
    /\ pc = "validate"
    /\ calls' = Append(calls, "validate")
    /\ IF flags.email = <<>> \/ flags.domain = <<>>
       THEN Return(Err("validation",
                <<"both --email and --domain flags should be set and not empty, please set these values">>))
       ELSE IF flags.ingressClass = <<>>
       THEN Return(Err("validation", <<"--ingress-class must be set">>))
       ELSE /\ pc' = "caps"
            /\ ret' = ret
    /\ UNCHANGED <<flags, kubeconfig, hasNetworking, yamlBytes, templateErr, tempFile,
                   kubectl, res, stdout, logged>>

\* caps, err := k8s.GetCapabilities(); hasNetworking := caps["networking.k8s.io/v1"]
GetCapabilities ==
    /\ pc = "caps"
    /\ calls' = Append(calls, "caps")
    /\ \E ok \in BOOLEAN, caps \in CapabilitySets :
        IF ok
        THEN /\ hasNetworking' = ("networking.k8s.io/v1" \in caps)
             /\ pc' = "render"
             /\ ret' = ret
        ELSE /\ hasNetworking' = hasNetworking
             /\ Return(Err("capabilities", <<"capabilities error">>))
    /\ UNCHANGED <<flags, kubeconfig, yamlBytes, templateErr, tempFile, kubectl, res,
                   stdout, logged>>

\* yamlBytes, templateErr := buildRegistryYAML(...)
Render ==
    /\ pc = "render"
    /\ calls' = Append(calls, "render")
    /\ LET built == buildRegistryYAML(flags.domain, flags.email, flags.ingressClass,
                                      flags.namespace, flags.maxSize, flags.staging,
                                      hasNetworking)
       IN  /\ yamlBytes' = built.bytes
           /\ templateErr' = built.err
           /\ IF built.err # NilErr
              THEN /\ logged' = Append(logged,
                        "Unable to install the application. Could not build the templated yaml file for the resources")
                   /\ Return(built.err)
              ELSE /\ logged' = logged
                   /\ pc' = "write"
                   /\ ret' = ret
    /\ UNCHANGED <<flags, kubeconfig, hasNetworking, tempFile, kubectl, res, stdout>>

\* Faulty variant: a failed write is logged and the command goes on.
WriteTempFileIgnoringError ==
    /\ pc = "write"
    /\ calls' = Append(calls, "write")
    /\ \E ok \in BOOLEAN :
        IF ok
        THEN /\ tempFile' = [name |-> <<"temp_registry_ingress.yaml">>, content |-> yamlBytes]
             /\ logged' = logged
        ELSE /\ tempFile' = tempFile
             /\ logged' = Append(logged,
                    "Unable to save generated yaml file into the temporary directory")
    /\ pc' = "apply"
    /\ ret' = ret
    /\ UNCHANGED <<flags, kubeconfig, hasNetworking, yamlBytes, templateErr, kubectl, res,
                   stdout>>

\* tempFile, tempFileErr := writeTempFile(yamlBytes, "temp_registry_ingress.yaml")
WriteTempFile ==
    /\ pc = "write"
    /\ calls' = Append(calls, "write")
    /\ \E ok \in BOOLEAN :
        IF ok
        THEN /\ tempFile' = [name |-> <<"temp_registry_ingress.yaml">>, content |-> yamlBytes]
             /\ logged' = logged
             /\ pc' = "apply"
             /\ ret' = ret
        ELSE /\ tempFile' = tempFile
             /\ logged' = Append(logged,
                    "Unable to save generated yaml file into the temporary directory")
             /\ Return(Err("tempfile", <<"temp file error">>))
    /\ UNCHANGED <<flags, kubeconfig, hasNetworking, yamlBytes, templateErr, kubectl, res,
                   stdout>>

\* Faulty variant: the exit code of kubectl is not looked at.
KubectlApplyIgnoringExitCode ==
    /\ pc = "apply"
    /\ calls' = Append(calls, "apply")
    /\ kubectl' = Append(kubectl, <<"apply", "-f">> \o tempFile.name)
    /\ \E ok \in BOOLEAN, code \in ExitCodes, stderr \in StderrTexts :
        IF ~ok
        THEN /\ res' = [NoResult EXCEPT !.err = Err("kubectl", <<"kubectl error">>)]
             /\ logged' = Append(logged, "kubectl error")
             /\ Return(Err("kubectl", <<"kubectl error">>))
        ELSE /\ res' = [ExitCode |-> code, Stderr |-> stderr, err |-> NilErr]
             /\ logged' = logged
             /\ pc' = "print"
             /\ ret' = ret
    /\ UNCHANGED <<flags, kubeconfig, hasNetworking, yamlBytes, templateErr, tempFile,
                   stdout>>

\* res, err := k8s.KubectlTask("apply", "-f", tempFile); if res.ExitCode != 0 { ... }
KubectlApply ==
    /\ pc = "apply"
    /\ calls' = Append(calls, "apply")
    /\ kubectl' = Append(kubectl, <<"apply", "-f">> \o tempFile.name)
    /\ \E ok \in BOOLEAN, code \in ExitCodes, stderr \in StderrTexts :
        IF ~ok
        THEN /\ res' = [NoResult EXCEPT !.err = Err("kubectl", <<"kubectl error">>)]
             /\ logged' = Append(logged, "kubectl error")
             /\ Return(Err("kubectl", <<"kubectl error">>))
        ELSE /\ res' = [ExitCode |-> code, Stderr |-> stderr, err |-> NilErr]
             /\ logged' = logged
             /\ IF code # 0
                THEN Return(Err("apply",
                         <<"Unable to apply YAML files.\nHave you got the Registry running and cert-manager 0.11.0 or higher installed? ">>
                         \o stderr))
                ELSE /\ pc' = "print"
                     /\ ret' = ret
    /\ UNCHANGED <<flags, kubeconfig, hasNetworking, yamlBytes, templateErr, tempFile,
                   stdout>>

\* fmt.Println(RegistryIngressInstallMsg); return nil
PrintBanner ==
    /\ pc = "print"
    /\ calls' = Append(calls, "print")
    /\ stdout' = Append(stdout, RegistryIngressInstallMsg)
    /\ Return(NilErr)
    /\ UNCHANGED <<flags, kubeconfig, hasNetworking, yamlBytes, templateErr, tempFile,
                   kubectl, res, logged>>

Next ==
    \/ SetKubeconfig
    \/ ValidateFlags
    \/ GetCapabilities
    \/ Render
    \/ WriteTempFile
    \/ KubectlApply
    \/ PrintBanner

Spec == Init /\ [][Next]_vars

---------------------------------------------------------------------------
(* buildRegistryYAML on its own: called with any arguments *)

InitBuild ==
    /\ pc = "call"
    /\ flags \in FlagSets
    /\ kubeconfig = Unset
    /\ hasNetworking \in BOOLEAN
    /\ yamlBytes = <<>>
    /\ templateErr = NilErr
    /\ tempFile = NoFile
    /\ kubectl = <<>>
    /\ res = NoResult
    /\ stdout = <<>>
    /\ logged = <<>>
    /\ ret = NoReturn
    /\ calls = <<>>

CallBuild ==
    /\ pc = "call"
    /\ LET built == buildRegistryYAML(flags.domain, flags.email, flags.ingressClass,
                                      flags.namespace, flags.maxSize, flags.staging,
                                      hasNetworking)
       IN  /\ yamlBytes' = built.bytes
           /\ templateErr' = built.err
    /\ pc' = "returned"
    /\ UNCHANGED <<flags, kubeconfig, hasNetworking, tempFile, kubectl, res, stdout,
                   logged, ret, calls>>

NextBuild == CallBuild

SpecBuild == InitBuild /\ [][NextBuild]_vars

---------------------------------------------------------------------------
(* Reading a rendered text *)

\* Text h contains text n.
Contains(h, n) ==
    \E i \in 1..(Len(h) + 1 - Len(n)) : SubSeq(h, i, i + Len(n) - 1) = n

\* The number of places of h where text n starts.
Count(h, n) ==
    Cardinality({i \in 1..(Len(h) + 1 - Len(n)) : SubSeq(h, i, i + Len(n) - 1) = n})

HasPrefix(l, p) == Len(p) <= Len(l) /\ SubSeq(l, 1, Len(p)) = p

\* Where the lines of s start, and the line that starts at i.
LineStarts(s) == {i \in 1..(Len(s) + 1) : i = 1 \/ s[i - 1] = "\n"}
LineEnd(s, i) ==
    CHOOSE j \in i..(Len(s) + 1) :
        /\ j = Len(s) + 1 \/ s[j] = "\n"
        /\ \A k \in i..(j - 1) : s[k] # "\n"
LineAt(s, i) == SubSeq(s, i, LineEnd(s, i) - 1)

\* The YAML document separators of s, and the lines of s before and after position sep.
Separators(s) == {i \in LineStarts(s) : LineAt(s, i) = <<"---">>}
Before(s, sep) == {i \in LineStarts(s) : i < sep}
After(s, sep) == {i \in LineStarts(s) : i > sep}

\* Among the lines of s starting at the positions in where: those written "<key>...",
\* and what follows the key on them.
LinesWith(s, where, key) == {i \in where : HasPrefix(LineAt(s, i), key)}
Values(s, where, key) ==
    {SubSeq(LineAt(s, i), Len(key) + 1, Len(LineAt(s, i))) : i \in LinesWith(s, where, key)}

\* The arguments buildRegistryYAML was called with, and its results.
Returned == pc = "returned"
CallerStrings ==
    {flags.domain, flags.email, flags.ingressClass, flags.namespace, flags.maxSize}
IssuerOf(staging) == IF staging THEN StagingIssuer ELSE ProdIssuer
APIOf(staging) == IF staging THEN StagingAPI ELSE ProdAPI
TheSeparator == CHOOSE i \in Separators(yamlBytes) : TRUE
IngressLines == Before(yamlBytes, TheSeparator)
IssuerLines == After(yamlBytes, TheSeparator)

---------------------------------------------------------------------------
(* C1: buildRegistryYAML selects the dialect from the capability flag:      *)
(* hasNetworking=true gives an Ingress of apiVersion networking.k8s.io/v1   *)
(* with a pathType field, hasNetworking=false one of extensions/v1beta1     *)
(* without pathType.                                                        *)
C1_DialectFollowsCapability ==
    Returned =>
        LET api == Values(yamlBytes, IngressLines, <<"apiVersion", ": ">>)
        IN  IF hasNetworking
            THEN /\ api = {<<"networking.k8s.io/v1">>}
                 /\ Contains(yamlBytes, <<"pathType">>)
            ELSE /\ api = {<<"extensions/v1beta1">>}
                 /\ ~Contains(yamlBytes, <<"pathType">>)

---------------------------------------------------------------------------
(* C3, as stated: staging=false puts the production issuer name and ACME    *)
(* URL in the output, staging=true the staging ones, and no output holds    *)
(* both pairs.                                                              *)
HasProdPair == Contains(yamlBytes, ProdIssuer) /\ Contains(yamlBytes, ProdAPI)
HasStagingPair == Contains(yamlBytes, StagingIssuer) /\ Contains(yamlBytes, StagingAPI)

---------------------------------------------------------------------------
(* C4, as stated: the output contains the annotation line                   *)
(* "nginx.ingress.kubernetes.io/proxy-body-size: <maxSize>" exactly when    *)
(* ingressClass is "nginx"; for any other class the annotation key is       *)
(* absent from the output.                                                  *)
AnnotationText == <<ProxyBodySizeKey, ": ">> \o flags.maxSize

C4_AnnotationKeyOnlyForNginx ==
    Returned =>
        /\ Contains(yamlBytes, AnnotationText) <=> flags.ingressClass = <<"nginx">>
        /\ flags.ingressClass # <<"nginx">> => ~Contains(yamlBytes, <<ProxyBodySizeKey>>)

(* C4, amended: the Ingress has the annotation line with the configured     *)
(* max size exactly when ingressClass is "nginx"; for any other class no    *)
(* line of the output is that annotation, and the key is in the output only *)
(* if the domain, email, ingress class or namespace given contains it.      *)
C4_AnnotationLine ==
    Returned =>
        LET annotations == LinesWith(yamlBytes, LineStarts(yamlBytes), <<"    ", ProxyBodySizeKey>>)
        IN  IF flags.ingressClass = <<"nginx">>
            THEN /\ Cardinality(annotations) = 1
                 /\ annotations \subseteq IngressLines
                 /\ \A i \in annotations :
                        LineAt(yamlBytes, i) = <<"    ">> \o AnnotationText
            ELSE /\ annotations = {}
                 /\ Contains(yamlBytes, <<ProxyBodySizeKey>>) =>
                        \E x \in {flags.domain, flags.email, flags.ingressClass,
                                  flags.namespace} :
                            Contains(x, <<ProxyBodySizeKey>>)

C4_Witness ==
    /\ Returned
    /\ flags.ingressClass = <<"traefik">>
    /\ Contains(yamlBytes, <<ProxyBodySizeKey>>)
    /\ LinesWith(yamlBytes, LineStarts(yamlBytes), <<"    ", ProxyBodySizeKey>>) = {}

---------------------------------------------------------------------------
(* C6, as stated: for a non-empty domain, whatever the other inputs, the    *)
(* output contains the domain in exactly two places, the rule host and the  *)
(* TLS hosts entry.                                                         *)
HostValues == Values(yamlBytes, IngressLines, <<"  - ", "host", ": ">>)
TLSHostValues ==
    LET hosts == LinesWith(yamlBytes, IngressLines, <<"  - ", "hosts", ":">>)
    IN  {SubSeq(LineAt(yamlBytes, LineEnd(yamlBytes, i) + 1), 2,
                Len(LineAt(yamlBytes, LineEnd(yamlBytes, i) + 1))) : i \in hosts}

---------------------------------------------------------------------------
(* C7: for a non-empty domain and a non-empty email, whatever the other     *)
(* arguments, buildRegistryYAML returns the rendered bytes and a nil error; *)
(* a parse or execution failure is returned as the error, with nil bytes.   *)
C7_RenderSucceeds ==
    Returned =>
        /\ (flags.domain # <<>> /\ flags.email # <<>>) =>
               /\ templateErr = NilErr
               /\ yamlBytes # <<>>
        /\ templateErr # NilErr => (templateErr.kind = "template" /\ yamlBytes = <<>>)

C7_Witness ==
    /\ Returned
    /\ flags.domain # <<>>
    /\ flags.email # <<>>
    /\ templateErr = NilErr
    /\ Len(yamlBytes) > Len(flags.domain) + Len(flags.email)

---------------------------------------------------------------------------
---------------------------------------------------------------------------
---------------------------------------------------------------------------
(* Reading a run of the command *)

Done == pc = "done"
Called(stage) == \E i \in 1..Len(calls) : calls[i] = stage
StageOrder == <<"kubeconfig", "validate", "caps", "render", "write", "apply", "print">>
InvalidFlags == flags.email = <<>> \/ flags.domain = <<>> \/ flags.ingressClass = <<>>
ApplyErrorText ==
    <<"Unable to apply YAML files.\nHave you got the Registry running and cert-manager 0.11.0 or higher installed? ">>

\* Nothing after the validation has happened.
NothingBeyondValidation ==
    /\ ~Called("caps")
    /\ ~Called("render")
    /\ yamlBytes = <<>>
    /\ ~Called("write")
    /\ tempFile = NoFile
    /\ ~Called("apply")
    /\ kubectl = <<>>
    /\ stdout = <<>>

---------------------------------------------------------------------------
(* C2, as stated: run with an empty email, domain or ingress class, the     *)
(* command returns a validation error and nothing has happened before it:   *)
(* no kubeconfig setting, no capability query, no rendering, no temp-file   *)
(* write, no apply.                                                         *)
C2_ValidationBeforeAnything ==
    (Done /\ InvalidFlags) =>
        /\ ret.kind = "validation"
        /\ ~Called("kubeconfig")
        /\ kubeconfig = Unset
        /\ NothingBeyondValidation

(* C2, amended: run with an empty email, domain or ingress class, the       *)
(* command returns the validation error, or the error of setting the        *)
(* kubeconfig, which is done first; no capability query, no rendering, no   *)
(* temp-file write and no apply happen in that run.                         *)
C2_ValidationBeforeClusterAccess ==
    InvalidFlags =>
        /\ NothingBeyondValidation
        /\ Called("validate") => (Called("kubeconfig") /\ kubeconfig = flags.kubeconfig)
        /\ Done =>
               /\ ret.kind \in {"kubeconfig", "validation"}
               /\ ret.kind = "validation" <=> Called("validate")
               /\ (flags.email = <<>> \/ flags.domain = <<>>) /\ Called("validate") =>
                      ret.text = <<"both --email and --domain flags should be set and not empty, please set these values">>
               /\ (flags.email # <<>> /\ flags.domain # <<>>) /\ Called("validate") =>
                      ret.text = <<"--ingress-class must be set">>

C2_Witness ==
    /\ Done
    /\ flags.email # <<>>
    /\ flags.domain # <<>>
    /\ flags.ingressClass = <<>>
    /\ ret.kind = "validation"
    /\ calls = <<"kubeconfig", "validate">>

---------------------------------------------------------------------------
(* C5, as stated: the command returns an error when a required flag is      *)
(* missing, when rendering fails, when the temp-file write fails or when    *)
(* apply exits non-zero (the error then embeds apply's stderr); in every    *)
(* other case it prints the banner and returns nil.  The banner is never    *)
(* printed in a run that returns an error.                                  *)
FlagMissing == Called("validate") /\ InvalidFlags
RenderFailed == Called("render") /\ templateErr # NilErr
WriteFailed == Called("write") /\ tempFile = NoFile
ApplyExitedNonZero == Called("apply") /\ res.ExitCode # 0

C5_ErrorOnlyInFourCases ==
    Done =>
        IF FlagMissing \/ RenderFailed \/ WriteFailed \/ ApplyExitedNonZero
        THEN /\ ret # NilErr
             /\ stdout = <<>>
             /\ ApplyExitedNonZero => ret.text = ApplyErrorText \o res.Stderr
        ELSE /\ ret = NilErr
             /\ stdout = <<RegistryIngressInstallMsg>>

(* C5, amended: the command returns an error when setting the kubeconfig    *)
(* fails, when a required flag is missing, when the capability query fails, *)
(* when rendering fails, when the temp-file write fails, when kubectl       *)
(* cannot be run or when apply exits non-zero (the error then embeds        *)
(* apply's stderr); in every other case it prints the banner and returns    *)
(* nil.  The banner is never printed in a run that returns an error.        *)
KubeconfigFailed == Called("kubeconfig") /\ kubeconfig = Unset
CapabilitiesFailed == Done /\ calls[Len(calls)] = "caps"
KubectlFailed == Called("apply") /\ res.err # NilErr

C5_ExitOutcome ==
    /\ ~Done => (ret = NoReturn /\ stdout = <<>>)
    /\ Done =>
        IF \/ KubeconfigFailed \/ FlagMissing \/ CapabilitiesFailed \/ RenderFailed
           \/ WriteFailed \/ KubectlFailed \/ ApplyExitedNonZero
        THEN /\ ret \notin {NilErr, NoReturn}
             /\ stdout = <<>>
             /\ KubeconfigFailed <=> ret.kind = "kubeconfig"
             /\ FlagMissing <=> ret.kind = "validation"
             /\ CapabilitiesFailed <=> ret.kind = "capabilities"
             /\ RenderFailed <=> ret.kind = "template"
             /\ WriteFailed <=> ret.kind = "tempfile"
             /\ KubectlFailed <=> ret.kind = "kubectl"
             /\ ApplyExitedNonZero <=> ret.kind = "apply"
             /\ ApplyExitedNonZero => ret.text = ApplyErrorText \o res.Stderr
        ELSE /\ ret = NilErr
             /\ stdout = <<RegistryIngressInstallMsg>>
             /\ calls = StageOrder

C5_Witness ==
    /\ Done
    /\ ApplyExitedNonZero
    /\ res.Stderr # <<>>
    /\ Contains(ret.text, res.Stderr)
    /\ stdout = <<>>

---------------------------------------------------------------------------
(* C9: the stages of a run happen in the fixed order validate flags, query  *)
(* capabilities, render, write temp file, apply, print banner (after        *)
(* setting the kubeconfig); a stage starts only if every earlier one        *)
(* succeeded, and a failure ends the run: no later stage, no retry, no      *)
(* rollback of what an earlier stage did.                                   *)
IsPrefixOf(p, q) == Len(p) <= Len(q) /\ SubSeq(q, 1, Len(p)) = p

StagesInOrder ==
    /\ IsPrefixOf(calls, StageOrder)
    /\ ~Done => pc = (<<"start">> \o Tail(StageOrder))[Len(calls) + 1]
    /\ Len(calls) >= 2 => kubeconfig = flags.kubeconfig
    /\ Len(calls) >= 3 => ~InvalidFlags
    /\ Len(calls) >= 5 => (templateErr = NilErr /\ yamlBytes # <<>>)
    /\ Len(calls) >= 6 => tempFile = [name |-> <<"temp_registry_ingress.yaml">>,
                                      content |-> yamlBytes]
    /\ Len(calls) >= 7 => (res.err = NilErr /\ res.ExitCode = 0 /\ kubectl = <<<<"apply", "-f">> \o tempFile.name>>)
    /\ (Done /\ ret # NilErr) => Len(calls) < Len(StageOrder)

NoStepAfterReturn == pc # "done"

NoRetryNoRollback ==
    /\ Len(calls') = Len(calls) + 1
    /\ IsPrefixOf(calls, calls')
    /\ kubeconfig # Unset => kubeconfig' = kubeconfig
    /\ yamlBytes # <<>> => yamlBytes' = yamlBytes
    /\ tempFile # NoFile => tempFile' = tempFile
    /\ IsPrefixOf(kubectl, kubectl')
    /\ flags' = flags

C9_StagesInFixedOrder ==
    /\ []StagesInOrder
    /\ [][NoStepAfterReturn /\ NoRetryNoRollback]_vars

C9_Witness ==
    /\ Done
    /\ ret.kind = "tempfile"
    /\ calls = <<"kubeconfig", "validate", "caps", "render", "write">>
    /\ kubectl = <<>>
    /\ stdout = <<>>

=============================================================================
